---------------------------- MODULE Spec2Model ----------------------------
(***************************************************************************)
(* Racing calendar feed generator (src/src/api.py).                        *)
(*                                                                         *)
(* A Python str is modelled as the sequence of its code points.  An ASCII  *)
(* code point is the one-character string of that character; any other     *)
(* code point is the string "U+XXXX" of its number, so the racing-car      *)
(* glyph of the settings is the two code points <<"U+1F3CE", "U+FE0F">>    *)
(* (the emoji followed by variation selector 16).                          *)
(***************************************************************************)
EXTENDS Integers, Sequences, FiniteSets, TLC

(***************************************************************************)
(* Python str operations used by the service.                              *)
(***************************************************************************)
UpperChars ==
    <<"A", "B", "C", "D", "E", "F", "G", "H", "I", "J", "K", "L", "M", "N", "O", "P", "Q", "R", "S", "T", "U", "V", "W", "X", "Y", "Z", "U+00C1", "U+00D3">>
LowerChars ==
    <<"a", "b", "c", "d", "e", "f", "g", "h", "i", "j", "k", "l", "m", "n", "o", "p", "q", "r", "s", "t", "u", "v", "w", "x", "y", "z", "U+00E1", "U+00F3">>

\* str.lower() / str.upper() on one code point.
LowerMap ==
    [c \in {UpperChars[i] : i \in 1..Len(UpperChars)} |->
        LowerChars[CHOOSE i \in 1..Len(UpperChars) : UpperChars[i] = c]]
UpperMap ==
    [c \in {LowerChars[i] : i \in 1..Len(LowerChars)} |->
        UpperChars[CHOOSE i \in 1..Len(LowerChars) : LowerChars[i] = c]]
lower_char(c) ==
    IF c \in DOMAIN LowerMap THEN LowerMap[c] ELSE c
upper_char(c) ==
    IF c \in DOMAIN UpperMap THEN UpperMap[c] ELSE c
lower(s) ==
    [i \in 1..Len(s) |-> lower_char(s[i])]
upper(s) ==
    [i \in 1..Len(s) |-> upper_char(s[i])]

\* Python's `k in s` on two str: k occurs in s as a contiguous substring.
IsIn(k, s) ==
    \E i \in 0..(Len(s) - Len(k)) : \A j \in 1..Len(k) : s[i + j] = k[j]

\* The code points str.strip() removes from both ends (space and tab here).
Whitespace ==
    {" ", "U+0009"}
strip(s) ==
    LET keep == {i \in 1..Len(s) : s[i] \notin Whitespace}
    IN  IF keep = {} THEN <<>>
        ELSE SubSeq(s, CHOOSE i \in keep : \A j \in keep : i <= j,
                       CHOOSE i \in keep : \A j \in keep : j <= i)

(***************************************************************************)
(* AppSettings: the icon map, the ordered classification rules and the     *)
(* session alias table.  A Python dict keeps insertion order, so each is a *)
(* sequence of entries.                                                    *)
(***************************************************************************)
ICONS ==
    <<[key |-> <<"F", "1">>, icon |-> <<"U+1F3CE", "U+FE0F">>],
      [key |-> <<"G", "T">>, icon |-> <<"U+1F3C1">>],
      [key |-> <<"N", "A", "S", "C", "A", "R">>, icon |-> <<"U+1F3C1">>],
      [key |-> <<"M", "O", "T", "O", "G", "P">>, icon |-> <<"U+1F3CD", "U+FE0F">>],
      [key |-> <<"D", "E", "F", "A", "U", "L", "T">>, icon |-> <<"U+1F3C6">>]>>
CATEGORY_KEYWORDS ==
    <<[cat |-> <<"n", "a", "s", "c", "a", "r">>,
       keywords |-> <<<<"n", "a", "s", "c", "a", "r">>,
                    <<"c", "u", "p", " ", "s", "e", "r", "i", "e", "s">>,
                    <<"d", "a", "y", "t", "o", "n", "a", " ", "5", "0", "0">>,
                    <<"b", "r", "i", "c", "k", "y", "a", "r", "d">>,
                    <<"s", "o", "u", "t", "h", "e", "r", "n", " ", "5", "0", "0">>>>],
      [cat |-> <<"f", "1">>,
       keywords |-> <<<<"U+1F3CE", "U+FE0F">>,
                    <<"f", "o", "r", "m", "u", "l", "a", " ", "1">>,
                    <<"f", "1">>,
                    <<"g", "r", "a", "n", "d", " ", "p", "r", "i", "x">>>>],
      [cat |-> <<"g", "t">>,
       keywords |-> <<<<"U+1F3C1">>,
                    <<"g", "t">>,
                    <<"g", "r", "a", "n", "d", " ", "t", "o", "u", "r", "i", "n", "g">>,
                    <<"e", "n", "d", "u", "r", "a", "n", "c", "e">>>>],
      [cat |-> <<"m", "o", "t", "o", "g", "p">>,
       keywords |-> <<<<"U+1F3CD", "U+FE0F">>,
                    <<"m", "o", "t", "o", "g", "p">>,
                    <<"m", "o", "t", "o", " ", "g", "p">>>>]>>
SESSION_ALIASES ==
    <<[key |-> <<"p", "r", "a", "c", "t", "i", "c", "e">>,
       aliases |-> <<<<"p", "1">>,
                   <<"p", "2">>,
                   <<"p", "3">>,
                   <<"f", "p", "1">>,
                   <<"f", "p", "2">>,
                   <<"f", "p", "3">>,
                   <<"p", "r", "U+00E1", "c", "t", "i", "c", "a">>,
                   <<"p", "r", "a", "c", "t", "i", "c", "a">>,
                   <<"w", "a", "r", "m", " ", "u", "p">>,
                   <<"w", "a", "r", "m", "u", "p">>,
                   <<"p", "r", "a", "c", "t", "i", "c", "e">>,
                   <<"l", "i", "b", "r", "e", "s">>,
                   <<"f", "r", "e", "e", " ", "p", "r", "a", "c", "t", "i", "c", "e">>,
                   <<"s", "h", "a", "k", "e", "d", "o", "w", "n">>>>],
      [key |-> <<"q", "u", "a", "l", "i", "f", "y", "i", "n", "g">>,
       aliases |-> <<<<"q", "u", "a", "l", "y">>,
                   <<"q", "u", "a", "l", "i", "f", "y", "i", "n", "g">>,
                   <<"c", "l", "a", "s", "i", "f", "i", "c", "a", "c", "i", "U+00F3", "n">>,
                   <<"c", "l", "a", "s", "i", "f", "i", "c", "a", "c", "i", "o", "n">>>>],
      [key |-> <<"s", "p", "r", "i", "n", "t">>,
       aliases |-> <<>>],
      [key |-> <<"s", "p", "r", "i", "n", "t", "_", "q", "u", "a", "l", "y">>,
       aliases |-> <<>>],
      [key |-> <<"r", "a", "c", "e">>,
       aliases |-> <<<<"c", "a", "r", "r", "e", "r", "a">>,
                   <<"r", "a", "c", "e">>,
                   <<"g", "r", "a", "n", "d", " ", "p", "r", "i", "x">>>>],
      [key |-> <<"p", "1">>,
       aliases |-> <<<<"p", "1">>>>],
      [key |-> <<"p", "2">>,
       aliases |-> <<<<"p", "2">>>>],
      [key |-> <<"p", "3">>,
       aliases |-> <<<<"p", "3">>>>],
      [key |-> <<"f", "p", "1">>,
       aliases |-> <<<<"f", "p", "1">>,
                   <<"f", "r", "e", "e", " ", "p", "r", "a", "c", "t", "i", "c", "e", " ", "1">>>>],
      [key |-> <<"f", "p", "2">>,
       aliases |-> <<<<"f", "p", "2">>,
                   <<"f", "r", "e", "e", " ", "p", "r", "a", "c", "t", "i", "c", "e", " ", "2">>>>],
      [key |-> <<"p", "r", "a", "c", "t", "i", "c", "a">>,
       aliases |-> <<<<"p", "r", "U+00E1", "c", "t", "i", "c", "a">>,
                   <<"p", "r", "a", "c", "t", "i", "c", "a">>>>],
      [key |-> <<"w", "a", "r", "m", "u", "p">>,
       aliases |-> <<<<"w", "a", "r", "m", " ", "u", "p">>,
                   <<"w", "a", "r", "m", "u", "p">>>>],
      [key |-> <<"q", "1">>,
       aliases |-> <<<<"q", "1">>>>],
      [key |-> <<"q", "2">>,
       aliases |-> <<<<"q", "2">>>>]>>


(***************************************************************************)
(* Optional[X]: None is the empty sequence, a value x is <<x>>.            *)
(***************************************************************************)
None ==
    <<>>
Some(x) ==
    <<x>>

(***************************************************************************)
(* CalendarService._determine_category                                     *)
(***************************************************************************)
\* any(k in title_lower for k in keywords)
AnyKeywordIn(keywords, title_lower) ==
    \E j \in 1..Len(keywords) : IsIn(keywords[j], title_lower)

\* The loop over CATEGORY_KEYWORDS.items() from rule i on: the index of the
\* first rule with a keyword in the title, or 0 when the loop ends.
RECURSIVE FirstKeywordRule(_, _, _)
FirstKeywordRule(rules, title_lower, i) ==
    IF i > Len(rules) THEN 0
    ELSE IF AnyKeywordIn(rules[i].keywords, title_lower) THEN i
    ELSE FirstKeywordRule(rules, title_lower, i + 1)

\* cat_lower in self.settings.CATEGORY_KEYWORDS
IsCategoryKey(cat_lower) ==
    \E i \in 1..Len(CATEGORY_KEYWORDS) : CATEGORY_KEYWORDS[i].cat = cat_lower

\* The loop over event.categories from tag i on.
RECURSIVE FirstKnownTag(_, _)
FirstKnownTag(categories, i) ==
    IF i > Len(categories) THEN None
    ELSE IF IsCategoryKey(lower(categories[i])) THEN Some(lower(categories[i]))
    ELSE FirstKnownTag(categories, i + 1)

OTHER_CATEGORY ==
    <<"o", "t", "h", "e", "r">>

\* Mutant: the f1 rule is walked before the nascar rule.
KeywordRules_f1_first ==
    <<CATEGORY_KEYWORDS[2], CATEGORY_KEYWORDS[1], CATEGORY_KEYWORDS[3],
      CATEGORY_KEYWORDS[4]>>

\* The rule list in the order the loop walks it.
KeywordRules ==
    CATEGORY_KEYWORDS

_determine_category(ev) ==
    LET title_lower == lower(ev.title)
        hit == FirstKeywordRule(KeywordRules, title_lower, 1)
        tag == FirstKnownTag(ev.categories, 1)
    IN  IF hit # 0 THEN KeywordRules[hit].cat
        ELSE IF tag # None THEN tag[1]
        ELSE OTHER_CATEGORY

(***************************************************************************)
(* CalendarService._clean_title: icon_regex.sub("", title).strip()         *)
(***************************************************************************)
\* The alternatives of icon_regex, in the order of ICONS.values().
IconAlternatives ==
    [i \in 1..Len(ICONS) |-> ICONS[i].icon]

\* The first alternative that matches s at position i (0: none does).
AlternativeAt(s, i) ==
    LET fits == {a \in 1..Len(IconAlternatives) :
                    /\ i + Len(IconAlternatives[a]) - 1 <= Len(s)
                    /\ SubSeq(s, i, i + Len(IconAlternatives[a]) - 1) = IconAlternatives[a]}
    IN  IF fits = {} THEN 0 ELSE CHOOSE a \in fits : \A b \in fits : a <= b

\* Mutant: re.sub with count=1, only the first match is dropped.
RegexSub_first_only(s, i) ==
    LET hits == {k \in i..Len(s) : AlternativeAt(s, k) # 0}
    IN  IF hits = {} THEN SubSeq(s, i, Len(s))
        ELSE LET k == CHOOSE h \in hits : \A g \in hits : h <= g
             IN  SubSeq(s, i, k - 1)
                     \o SubSeq(s, k + Len(IconAlternatives[AlternativeAt(s, k)]), Len(s))

\* re.sub: one left-to-right scan; a match is dropped and the scan goes on
\* after it, any other code point is copied.
RECURSIVE RegexSub(_, _)
RegexSub(s, i) ==
    IF i > Len(s) THEN <<>>
    ELSE LET a == AlternativeAt(s, i)
         IN  IF a # 0 THEN RegexSub(s, i + Len(IconAlternatives[a]))
             ELSE <<s[i]>> \o RegexSub(s, i + 1)

_clean_title(title) ==
    strip(RegexSub(title, 1))

(***************************************************************************)
(* CalendarService._is_session_match                                       *)
(***************************************************************************)
K_sprint ==
    <<"s", "p", "r", "i", "n", "t">>
K_sprint_qualy ==
    <<"s", "p", "r", "i", "n", "t", "_", "q", "u", "a", "l", "y">>
K_qual ==
    <<"q", "u", "a", "l">>
K_clasif ==
    <<"c", "l", "a", "s", "i", "f">>
K_qualifying ==
    <<"q", "u", "a", "l", "i", "f", "y", "i", "n", "g">>
K_race ==
    <<"r", "a", "c", "e">>

\* Mutant: SESSION_ALIASES.get(filter_key, []), a key outside the table
\* has no alias.
AliasesOf_no_default(filter_key) ==
    IF \E i \in 1..Len(SESSION_ALIASES) : SESSION_ALIASES[i].key = filter_key
    THEN SESSION_ALIASES[CHOOSE i \in 1..Len(SESSION_ALIASES) :
                            SESSION_ALIASES[i].key = filter_key].aliases
    ELSE <<>>

\* self.settings.SESSION_ALIASES.get(filter_key, [filter_key])
AliasesOf(filter_key) ==
    IF \E i \in 1..Len(SESSION_ALIASES) : SESSION_ALIASES[i].key = filter_key
    THEN SESSION_ALIASES[CHOOSE i \in 1..Len(SESSION_ALIASES) :
                            SESSION_ALIASES[i].key = filter_key].aliases
    ELSE <<filter_key>>

\* Mutant: alias in name_lower, without the padding.
AliasMatch_substring(alias, name_lower) ==
    IsIn(alias, name_lower)

\* The test of one alias: padded_alias in padded_name or name_lower == alias.
AliasMatch(alias, name_lower) ==
    \/ IsIn(<<" ">> \o alias \o <<" ">>, <<" ">> \o name_lower \o <<" ">>)
    \/ name_lower = alias

\* Mutant: the "sprint" branch without the test for "clasif".
SprintMatch_no_clasif(name_lower) ==
    /\ IsIn(K_sprint, name_lower)
    /\ ~IsIn(K_qual, name_lower)

\* The "sprint" branch.
SprintMatch(name_lower) ==
    /\ IsIn(K_sprint, name_lower)
    /\ ~IsIn(K_qual, name_lower)
    /\ ~IsIn(K_clasif, name_lower)

\* The "sprint_qualy" branch.
SprintQualyMatch(name_lower) ==
    /\ IsIn(K_sprint, name_lower)
    /\ (IsIn(K_qual, name_lower) \/ IsIn(K_clasif, name_lower))

\* One pass of the loop body for filter_key: TRUE when it returns True.
FilterKeyMatch(filter_key, name_lower) ==
    IF filter_key = K_sprint THEN SprintMatch(name_lower)
    ELSE IF filter_key = K_sprint_qualy THEN SprintQualyMatch(name_lower)
    ELSE LET aliases == AliasesOf(filter_key)
         IN  \E a \in 1..Len(aliases) : AliasMatch(aliases[a], name_lower)

\* The loop returns True at the first key that matches and False after the
\* last one; the iteration order of the set does not change the result.
_is_session_match(name, filters) ==
    LET name_lower == strip(lower(name))
    IN  \E filter_key \in filters : FilterKeyMatch(filter_key, name_lower)

(***************************************************************************)
(* datetime.  A date is its proleptic Gregorian ordinal (date.toordinal);  *)
(* an aware datetime is the local date, the local minute of the day and    *)
(* the UTC offset in minutes.  "type" tells a date from a datetime, as     *)
(* isinstance does.                                                        *)
(***************************************************************************)
_is_leap(y) ==
    y % 4 = 0 /\ (y % 100 # 0 \/ y % 400 = 0)
_days_before_year(y) ==
    (y - 1) * 365 + ((y - 1) \div 4) - ((y - 1) \div 100) + ((y - 1) \div 400)
_days_before_month(y, m) ==
    <<0, 31, 59, 90, 120, 151, 181, 212, 243, 273, 304, 334>>[m]
        + (IF m > 2 /\ _is_leap(y) THEN 1 ELSE 0)
_days_in_month(y, m) ==
    IF m = 2 /\ _is_leap(y) THEN 29
    ELSE <<31, 28, 31, 30, 31, 30, 31, 31, 30, 31, 30, 31>>[m]
\* date(y, m, d).toordinal()
_ymd2ord(y, m, d) ==
    _days_before_year(y) + _days_before_month(y, m) + d
\* date.fromordinal(n): <<year, month, day>>
_ord2ymd(n) ==
    LET n0 == n - 1
        n400 == n0 \div 146097
        r400 == n0 % 146097
        n100 == r400 \div 36524
        r100 == r400 % 36524
        n4 == r100 \div 1461
        r4 == r100 % 1461
        n1 == r4 \div 365
        r1 == r4 % 365
        year == n400 * 400 + 1 + n100 * 100 + n4 * 4 + n1
        leapyear == n1 = 3 /\ (n4 # 24 \/ n100 = 3)
        month0 == (r1 + 50) \div 32
        preceding0 == _days_before_month(2001, month0)
                          + (IF month0 > 2 /\ leapyear THEN 1 ELSE 0)
        month == IF preceding0 > r1 THEN month0 - 1 ELSE month0
        preceding == IF preceding0 > r1
                     THEN preceding0
                              - (_days_in_month(2001, month)
                                    + (IF month = 2 /\ leapyear THEN 1 ELSE 0))
                     ELSE preceding0
    IN  IF n1 = 4 \/ n100 = 4 THEN <<year - 1, 12, 31>>
        ELSE <<year, month, r1 - preceding + 1>>

Date(ord) ==
    [type |-> "date", ord |-> ord, min |-> 0, off |-> 0]
DateTime(y, m, d, hh, mm, off) ==
    [type |-> "datetime", ord |-> _ymd2ord(y, m, d), min |-> hh * 60 + mm, off |-> off]
\* datetime.date()
DateOf(dt) ==
    Date(dt.ord)
\* The UTC instant of an aware datetime, in minutes: what <, >= compare.
UtcMinutes(dt) ==
    dt.ord * 1440 + dt.min - dt.off
\* date + timedelta(days = n)
AddDays(d, n) ==
    [d EXCEPT !.ord = @ + n]

Digits ==
    <<"0", "1", "2", "3", "4", "5", "6", "7", "8", "9">>
Pad2(n) ==
    <<Digits[((n \div 10) % 10) + 1], Digits[(n % 10) + 1]>>
Pad4(n) ==
    Pad2(n \div 100) \o Pad2(n % 100)
\* datetime.isoformat() of an aware datetime with whole minutes:
\* YYYY-MM-DDTHH:MM:00+HH:MM
isoformat(dt) ==
    LET ymd == _ord2ymd(dt.ord)
        a == IF dt.off < 0 THEN -dt.off ELSE dt.off
    IN  Pad4(ymd[1]) \o <<"-">> \o Pad2(ymd[2]) \o <<"-">> \o Pad2(ymd[3])
            \o <<"T">> \o Pad2(dt.min \div 60) \o <<":">> \o Pad2(dt.min % 60)
            \o <<":", "0", "0">>
            \o <<IF dt.off < 0 THEN "-" ELSE "+">>
            \o Pad2(a \div 60) \o <<":">> \o Pad2(a % 60)

(***************************************************************************)
(* zoneinfo.ZoneInfo(key).  A zone is its UTC offset before and after one  *)
(* daylight-saving transition (a UTC instant in minutes).  A key that is   *)
(* an absolute path or leaves the zone directory makes ZoneInfo raise      *)
(* ValueError; any other unknown key raises ZoneInfoNotFoundError.         *)
(***************************************************************************)
TZ_Madrid ==
    <<"E", "u", "r", "o", "p", "e", "/", "M", "a", "d", "r", "i", "d">>
ZoneTable ==
    <<[key |-> TZ_Madrid,
       transition |-> (_ymd2ord(2025, 3, 30) * 1440) + 60,
       before |-> 60, after |-> 120]>>

StartsWith(s, p) ==
    Len(p) <= Len(s) /\ SubSeq(s, 1, Len(p)) = p

ZoneInfo(key) ==
    IF \E i \in 1..Len(ZoneTable) : ZoneTable[i].key = key
    THEN [raised |-> "",
          zone |-> Some(ZoneTable[CHOOSE i \in 1..Len(ZoneTable) : ZoneTable[i].key = key])]
    ELSE IF StartsWith(key, <<"/">>) \/ StartsWith(key, <<".", ".", "/">>)
    THEN [raised |-> "ValueError", zone |-> None]
    ELSE [raised |-> "ZoneInfoNotFoundError", zone |-> None]

\* datetime.astimezone(zone): the same instant in the zone's local time.
astimezone(dt, zone) ==
    LET t == UtcMinutes(dt)
        o == IF t < zone.transition THEN zone.before ELSE zone.after
    IN  [type |-> "datetime", ord |-> (t + o) \div 1440, min |-> (t + o) % 1440, off |-> o]

(***************************************************************************)
(* Domain models.  A session is [name, start, end]; an event is [title,    *)
(* categories, start, end, sessions] with start and end Optional.  The     *)
(* validators are those of SessionModel and EventModel.                    *)
(***************************************************************************)
validate_session(s) ==
    ~(UtcMinutes(s.start) >= UtcMinutes(s.end))
validate_event(ev) ==
    /\ ~(ev.sessions = <<>> /\ (ev.start = None \/ ev.end = None))
    /\ (ev.start # None /\ ev.end # None)
          => ~(UtcMinutes(ev.start[1]) >= UtcMinutes(ev.end[1]))
    /\ \A j \in 1..Len(ev.sessions) : validate_session(ev.sessions[j])

(***************************************************************************)
(* CalendarService._create_ical_event                                      *)
(***************************************************************************)
NAMESPACE_DNS ==
    "6ba7b810-9dad-11d1-80b4-00c04fd430c8"
\* uuid5 hashes the namespace and the name with SHA-1.  The hash is taken
\* to be collision-free: the identifier is the pair it is computed from.
uuid5(namespace, name) ==
    [namespace |-> namespace, name |-> name]

\* if zone and isinstance(value, datetime): value = value.astimezone(zone)
ConvertZone(value, zone) ==
    IF zone # None /\ value.type = "datetime" THEN astimezone(value, zone[1])
    ELSE value

\* Mutant: the end date is stored as it is.
DtEnd_inclusive(end, is_all_day) ==
    end

\* The value stored as dtend.
DtEnd(end, is_all_day) ==
    IF is_all_day /\ end.type = "date" THEN AddDays(end, 1) ELSE end

_create_ical_event(uid_seed, summary, start, end, session_name, is_all_day, zone) ==
    [summary |-> summary,
     dtstart |-> ConvertZone(start, zone),
     dtend |-> DtEnd(ConvertZone(end, zone), is_all_day),
     description |-> session_name,
     transp |-> "TRANSPARENT",
     uid |-> [uuid |-> uuid5(NAMESPACE_DNS, uid_seed), host |-> "@racing-manager.com"],
     alarm |-> [action |-> "DISPLAY",
                description |-> <<"A", "r", "r", "a", "n", "c", "a", ":", " ">> \o summary,
                trigger_minutes |-> -15]]

(***************************************************************************)
(* CalendarService.generate_calendar                                       *)
(***************************************************************************)
\* Python truth of an Optional set, dict or str: not None and not empty.
TruthySet(opt) ==
    opt # None /\ opt[1] # {}
TruthyDict(opt) ==
    opt # None /\ DOMAIN opt[1] # {}
TruthyStr(opt) ==
    opt # None /\ opt[1] # <<>>

\* Mutant: the category filter is not applied.
CategorySkipped_never(filter_cats, category) ==
    FALSE

\* if filter_cats and category not in filter_cats: continue
CategorySkipped(filter_cats, category) ==
    TruthySet(filter_cats) /\ category \notin filter_cats[1]

\* Mutant: the global session filter takes precedence.
EffectiveSessions_global_first(cat_session_filters, filter_sessions, category) ==
    LET per == IF TruthyDict(cat_session_filters)
                  /\ category \in DOMAIN cat_session_filters[1]
               THEN Some(cat_session_filters[1][category])
               ELSE None
    IN  IF filter_sessions = None THEN per ELSE filter_sessions

\* The effective session filter of one event.
EffectiveSessions(cat_session_filters, filter_sessions, category) ==
    LET per == IF TruthyDict(cat_session_filters)
                  /\ category \in DOMAIN cat_session_filters[1]
               THEN Some(cat_session_filters[1][category])
               ELSE None
    IN  IF per = None THEN filter_sessions ELSE per

\* if effective_sessions: if not _is_session_match(...): continue
SessionSkipped(name, effective_sessions) ==
    TruthySet(effective_sessions) /\ ~_is_session_match(name, effective_sessions[1])

\* Mutant: a whole event is left out under any session filter.
WholeEventSkipped_any_filter(effective_sessions) ==
    TruthySet(effective_sessions)

\* if effective_sessions and 'race' not in effective_sessions: continue
WholeEventSkipped(effective_sessions) ==
    TruthySet(effective_sessions) /\ K_race \notin effective_sessions[1]

\* self.settings.ICONS.get(category.upper(), self.settings.ICONS["DEFAULT"])
IconFor(category) ==
    LET key == upper(category)
    IN  IF \E i \in 1..Len(ICONS) : ICONS[i].key = key
        THEN ICONS[CHOOSE i \in 1..Len(ICONS) : ICONS[i].key = key].icon
        ELSE ICONS[CHOOSE i \in 1..Len(ICONS) : ICONS[i].key = <<"D", "E", "F", "A", "U", "L", "T">>].icon

\* f"{entry.title}|{session.name}|{session.start.isoformat()}"
SessionSeed(entry, session) ==
    entry.title \o <<"|">> \o session.name \o <<"|">> \o isoformat(session.start)
\* f"{entry.title}|main"
WholeEventSeed(entry) ==
    entry.title \o <<"|", "m", "a", "i", "n">>

\* The loop over entry.sessions from session j on.  A component is the
\* entry (evt) and the event and session it was built from (src; session
\* 0 is the whole event).
RECURSIVE SessionEntries(_, _, _, _, _, _, _)
SessionEntries(entry, e, j, effective_sessions, icon, clean_title, zone) ==
    IF j > Len(entry.sessions) THEN <<>>
    ELSE LET session == entry.sessions[j]
             rest == SessionEntries(entry, e, j + 1, effective_sessions,
                                    icon, clean_title, zone)
             summary == icon \o <<" ">> \o session.name \o <<" ", "|", " ">> \o clean_title
         IN  IF SessionSkipped(session.name, effective_sessions) THEN rest
             ELSE <<[src |-> <<e, j>>,
                     evt |-> _create_ical_event(SessionSeed(entry, session), summary,
                                                session.start, session.end,
                                                session.name, FALSE, zone)]>>
                  \o rest

\* The body of the loop over events, for event e.
EventEntries(entry, e, filter_cats, filter_sessions, cat_session_filters, zone) ==
    LET category == _determine_category(entry)
        effective_sessions == EffectiveSessions(cat_session_filters, filter_sessions,
                                                category)
        icon == IconFor(category)
        clean_title == _clean_title(entry.title)
    IN  IF CategorySkipped(filter_cats, category) THEN <<>>
        ELSE IF entry.sessions # <<>>
        THEN SessionEntries(entry, e, 1, effective_sessions, icon, clean_title, zone)
        ELSE IF entry.start # None /\ entry.end # None
        THEN IF WholeEventSkipped(effective_sessions) THEN <<>>
             ELSE <<[src |-> <<e, 0>>,
                     evt |-> _create_ical_event(WholeEventSeed(entry),
                                                icon \o <<" ">> \o clean_title,
                                                DateOf(entry.start[1]),
                                                DateOf(entry.end[1]),
                                                clean_title, TRUE, zone)]>>
        ELSE <<>>

RECURSIVE AllEntries(_, _, _, _, _, _)
AllEntries(evs, e, filter_cats, filter_sessions, cat_session_filters, zone) ==
    IF e > Len(evs) THEN <<>>
    ELSE EventEntries(evs[e], e, filter_cats, filter_sessions, cat_session_filters, zone)
         \o AllEntries(evs, e + 1, filter_cats, filter_sessions, cat_session_filters, zone)

\* zone = ZoneInfo(target_tz) under except (ZoneInfoNotFoundError, KeyError):
\* any other exception leaves generate_calendar.
ResolveZone(target_tz) ==
    IF TruthyStr(target_tz)
    THEN LET z == ZoneInfo(target_tz[1])
         IN  IF z.raised = "ZoneInfoNotFoundError" THEN [raised |-> "", zone |-> None]
             ELSE z
    ELSE [raised |-> "", zone |-> None]

\* The result: the exception that left the call ("" when it returned) and
\* the Calendar (its x-wr-timezone property and its components).
generate_calendar(evs, filter_cats, filter_sessions, cat_session_filters, target_tz) ==
    LET z == ResolveZone(target_tz)
    IN  IF z.raised # ""
        THEN [raised |-> z.raised, x_wr_timezone |-> None, components |-> <<>>]
        ELSE [raised |-> "",
              x_wr_timezone |-> IF z.zone # None THEN target_tz ELSE None,
              components |-> AllEntries(evs, 1, filter_cats, filter_sessions,
                                        cat_session_filters, z.zone)]

(***************************************************************************)
(* DataLoader.load_events.  A data file is a sequence of items: a mapping  *)
(* (the keyword arguments of EventModel, which the validators accept or    *)
(* reject) or any other JSON value, which cannot be unpacked into keyword  *)
(* arguments: the construction raises TypeError.  ValueError (pydantic's   *)
(* ValidationError) and KeyError skip the item; TypeError is caught by     *)
(* neither handler and leaves the call.                                    *)
(***************************************************************************)
Mapping(ev) ==
    [kind |-> "mapping", ev |-> ev]
Scalar ==
    [kind |-> "scalar", ev |-> <<>>]

RECURSIVE LoadItems(_, _)
LoadItems(data, i) ==
    IF i > Len(data) THEN [raised |-> "", events |-> <<>>]
    ELSE IF data[i].kind # "mapping" THEN [raised |-> "TypeError", events |-> <<>>]
    ELSE LET rest == LoadItems(data, i + 1)
         IN  IF rest.raised # "" THEN rest
             ELSE IF validate_event(data[i].ev)
             THEN [rest EXCEPT !.events = <<data[i].ev>> \o @]
             ELSE rest

load_events(data) ==
    LoadItems(data, 1)

(***************************************************************************)
(* get_calendar_ics: GET /calendar.ics                                     *)
(***************************************************************************)
\* {s.lower() for s in vals}
LowerSet(vals) ==
    {lower(vals[i]) : i \in 1..Len(vals)}
\* {...} if vals else None: None for an absent or an empty list.
LowerSetOrNone(vals) ==
    IF vals # None /\ vals[1] # <<>> THEN Some(LowerSet(vals[1])) ELSE None

C_f1 ==
    <<"f", "1">>
C_nascar ==
    <<"n", "a", "s", "c", "a", "r">>
C_gt ==
    <<"g", "t">>
C_motogp ==
    <<"m", "o", "t", "o", "g", "p">>
\* The dict of the per-category parameters that are not None, or None when
\* it is empty.
PerCategoryFilters(f1_sessions, gt_sessions, nascar_sessions, motogp_sessions) ==
    LET _raw == (C_f1 :> f1_sessions) @@ (C_gt :> gt_sessions)
                    @@ (C_nascar :> nascar_sessions) @@ (C_motogp :> motogp_sessions)
        given == {cat \in DOMAIN _raw : _raw[cat] # None}
    IN  IF given = {} THEN None
        ELSE Some([cat \in given |-> LowerSet(_raw[cat][1])])

\* Calendar.to_ical(): the content lines, each a name and a value.  The
\* calendar's lines enclose those of its components.
Line(name, value) ==
    [name |-> name, value |-> value]
RECURSIVE ComponentLines(_, _)
ComponentLines(components, k) ==
    IF k > Len(components) THEN <<>>
    ELSE <<Line("BEGIN", "VEVENT"),
           Line("SUMMARY", components[k].evt.summary),
           Line("DTSTART", components[k].evt.dtstart),
           Line("DTEND", components[k].evt.dtend),
           Line("UID", components[k].evt.uid),
           Line("END", "VEVENT")>>
         \o ComponentLines(components, k + 1)
to_ical(calendar_obj) ==
    <<Line("BEGIN", "VCALENDAR"),
      Line("VERSION", "2.0"),
      Line("PRODID", "-//RacingManager//Dynamic//ES")>>
    \o (IF calendar_obj.x_wr_timezone # None
        THEN <<Line("X-WR-TIMEZONE", calendar_obj.x_wr_timezone[1])>> ELSE <<>>)
    \o ComponentLines(calendar_obj.components, 1)
    \o <<Line("END", "VCALENDAR")>>

HTTP_OK ==
    200
HTTP_INTERNAL_ERROR ==
    500
\* raise HTTPException(status_code=500, detail="Error interno del servidor")
InternalError ==
    [status_code |-> HTTP_INTERNAL_ERROR, media_type |-> "application/json",
     content |-> <<Line("detail", "Error interno del servidor")>>]

\* An empty document is answered as a failure.
Respond_empty_is_failure(calendar_obj) ==
    IF calendar_obj.components = <<>> THEN InternalError
    ELSE [status_code |-> HTTP_OK, media_type |-> "text/calendar",
          content |-> to_ical(calendar_obj)]

\* return Response(content=calendar_obj.to_ical(), media_type="text/calendar")
Respond(calendar_obj) ==
    [status_code |-> HTTP_OK, media_type |-> "text/calendar",
     content |-> to_ical(calendar_obj)]

\* The handler: every exception of the body becomes the 500 answer.
get_calendar_ics(data, cats, sessions, f1_sessions, gt_sessions, nascar_sessions, motogp_sessions, tz) ==
    LET loaded == load_events(data)
        cat_set == LowerSetOrNone(cats)
        session_set == LowerSetOrNone(sessions)
        cat_session_filters_ == PerCategoryFilters(f1_sessions, gt_sessions,
                                                   nascar_sessions, motogp_sessions)
        calendar_obj == generate_calendar(loaded.events, cat_set, session_set,
                                          cat_session_filters_, tz)
    IN  IF loaded.raised # "" THEN InternalError
        ELSE IF calendar_obj.raised # "" THEN InternalError
        ELSE Respond(calendar_obj)

(***************************************************************************)
(* State.  pc names the call that has returned ("idle": none yet).  Each   *)
(* operation of the service has its arguments and its result as variables. *)
(* events is what DataLoader.load_events returns for the request: the data *)
(* files are read again at every request, so an edit of the files between  *)
(* two requests changes it.                                                *)
(***************************************************************************)
VARIABLES
    pc,
    event, category,                           \* _determine_category
    session_name, requested_filters, matched,  \* _is_session_match
    events,                                    \* the loaded events
    filter_cats, filter_sessions,              \* generate_calendar's arguments
    cat_session_filters, target_tz,
    cal,                                       \* its result
    prev_events, prev_cal,                     \* the request before the last edit
    request, response,                         \* get_calendar_ics
    title, cleaned                             \* _clean_title

vars ==
    <<pc, event, category, session_name, requested_filters, matched, events,
      filter_cats, filter_sessions, cat_session_filters, target_tz, cal,
      prev_events, prev_cal, request, response, title, cleaned>>

(***************************************************************************)
(* Bounded inputs.  A title or a session name is a concatenation of at     *)
(* most MaxTitleFrags / MaxNameFrags fragments; a filter set of the        *)
(* matcher has at most MaxFilterKeys keys; a request is served from at     *)
(* most MaxEvents events.                                                  *)
(***************************************************************************)
MaxTitleFrags ==
    3
MaxNameFrags ==
    3
MaxFilterKeys ==
    1
MaxEvents ==
    1

RECURSIVE Concats(_, _)
Concats(frags, n) ==
    IF n = 0 THEN {<<>>}
    ELSE LET shorter == Concats(frags, n - 1)
         IN  shorter \cup {s \o f : s \in shorter, f \in frags}

TitleFrags ==
    {<<"N", "A", "S", "C", "A", "R">>, <<"U+1F3CE", "U+FE0F">>, <<"U+1F3C1">>, <<"F", "1">>, <<"M", "o", "t", "o">>, <<"G", "P">>, <<" ">>, <<"R", "a", "l", "l", "y">>}
Titles ==
    Concats(TitleFrags, MaxTitleFrags)
\* Titles for the cleaner: every icon glyph, a word and a space.
IconTitleFrags ==
    {ICONS[i].icon : i \in 1..Len(ICONS)} \cup {<<"G", "P">>, <<" ">>}
IconTitles ==
    Concats(IconTitleFrags, MaxTitleFrags)
CategoryLists ==
    {<<>>, <<<<"F", "1">>>>, <<<<"r", "a", "l", "l", "y">>, <<"G", "T">>>>, <<<<"M", "o", "t", "o", "G", "P">>, <<"f", "1">>>>}

K_p1 ==
    <<"p", "1">>
K_fp1 ==
    <<"f", "p", "1">>
K_fp3 ==
    <<"f", "p", "3">>
N_FP1_Practice ==
    <<"F", "P", "1", " ", "P", "r", "a", "c", "t", "i", "c", "e">>
N_Sprint_Qualifying ==
    <<"S", "p", "r", "i", "n", "t", " ", "Q", "u", "a", "l", "i", "f", "y", "i", "n", "g">>
NameFrags ==
    {<<"F", "P", "1">>, <<"P", "1">>, <<" ">>, <<"P", "r", "a", "c", "t", "i", "c", "e">>, <<"S", "p", "r", "i", "n", "t">>, <<"Q", "u", "a", "l", "i", "f", "y", "i", "n", "g">>, <<"C", "l", "a", "s", "i", "f">>, <<"F", "P", "3">>,
     <<"U+0009">>}
Names ==
    Concats(NameFrags, MaxNameFrags)
FilterKeys ==
    {K_p1, K_fp1, <<"p", "r", "a", "c", "t", "i", "c", "e">>, K_sprint, K_sprint_qualy, K_fp3}
FilterSets ==
    {F \in SUBSET FilterKeys : Cardinality(F) <= MaxFilterKeys}

T_Example_Grand_Prix ==
    <<"U+1F3CE", "U+FE0F", " ", "E", "x", "a", "m", "p", "l", "e", " ", "G", "r", "a", "n", "d", " ", "P", "r", "i", "x">>
N_Qualifying ==
    <<"Q", "u", "a", "l", "i", "f", "y", "i", "n", "g">>
N_Race ==
    <<"R", "a", "c", "e">>
Session(name, start, end) ==
    [name |-> name, start |-> start, end |-> end]
Profiles ==
    {[title |-> T_Example_Grand_Prix, categories |-> <<>>],
     [title |-> <<"D", "a", "y", "t", "o", "n", "a", " ", "5", "0", "0">>, categories |-> <<<<"N", "A", "S", "C", "A", "R">>>>],
     [title |-> <<"R", "a", "l", "l", "y", " ", "S", "w", "e", "d", "e", "n">>, categories |-> <<<<"G", "T">>>>],
     [title |-> <<"R", "a", "l", "l", "y", " ", "S", "w", "e", "d", "e", "n">>, categories |-> <<<<"W", "R", "C">>>>]}
Schedules ==
    {[start |-> None, end |-> None,
      sessions |-> <<Session(N_Qualifying, DateTime(2025, 3, 1, 15, 0, 0),
                             DateTime(2025, 3, 1, 16, 0, 0)),
                     Session(N_Race, DateTime(2025, 3, 2, 14, 0, 0),
                             DateTime(2025, 3, 2, 16, 0, 0))>>],
     [start |-> Some(DateTime(2025, 3, 29, 9, 0, 60)),
      end |-> Some(DateTime(2025, 3, 30, 17, 0, 120)),
      sessions |-> <<Session(<<"F", "P", "3">>, DateTime(2025, 3, 29, 23, 30, 60),
                             DateTime(2025, 3, 30, 0, 30, 60)),
                     Session(N_Sprint_Qualifying, DateTime(2025, 3, 30, 1, 45, 60),
                             DateTime(2025, 3, 30, 3, 30, 120))>>],
     [start |-> Some(DateTime(2025, 3, 1, 0, 0, 0)),
      end |-> Some(DateTime(2025, 3, 3, 0, 0, 0)),
      sessions |-> <<>>],
     [start |-> Some(DateTime(2025, 2, 28, 22, 0, -300)),
      end |-> Some(DateTime(2025, 2, 28, 23, 30, -300)),
      sessions |-> <<>>],
     [start |-> Some(DateTime(2025, 3, 2, 0, 30, 540)),
      end |-> Some(DateTime(2025, 3, 1, 18, 0, 0)),
      sessions |-> <<>>]}
EventPool ==
    {[title |-> p.title, categories |-> p.categories,
      start |-> s.start, end |-> s.end, sessions |-> s.sessions] :
        p \in Profiles, s \in Schedules}
RECURSIVE EventSeqs(_)
EventSeqs(n) ==
    IF n = 0 THEN {<<>>}
    ELSE LET shorter == EventSeqs(n - 1)
         IN  shorter \cup {Append(l, ev) : l \in shorter, ev \in EventPool}
EventLists ==
    EventSeqs(MaxEvents)

CategoryFilters ==
    {None, Some({}), Some({C_f1}), Some({C_nascar, <<"w", "e", "c">>})}
SessionFilters ==
    {None, Some({}), Some({K_race}), Some({K_fp3})}
CategorySessionFilters ==
    {None,
     Some(C_f1 :> {K_race}),
     Some((C_f1 :> {}) @@ (C_nascar :> {K_qualifying}) @@ (C_gt :> {K_fp3}))}
TZ_unknown ==
    <<"M", "a", "r", "s", "/", "O", "l", "y", "m", "p", "u", "s">>
TZ_absolute ==
    <<"/", "e", "t", "c", "/", "l", "o", "c", "a", "l", "t", "i", "m", "e">>
Timezones ==
    {None, Some(TZ_Madrid), Some(TZ_unknown), Some(TZ_absolute)}

NoEvent ==
    [title |-> <<>>, categories |-> <<>>]
NoCalendar ==
    [raised |-> "", x_wr_timezone |-> None, components |-> <<>>]

\* A mapping the validators reject: no sessions and no start or end.
InvalidEvent ==
    [title |-> <<"T", "e", "s", "t", " ", "D", "a", "y">>, categories |-> <<>>, start |-> None, end |-> None,
     sessions |-> <<>>]
DataItems ==
    {Mapping(ev) : ev \in EventPool} \cup {Mapping(InvalidEvent), Scalar}
RECURSIVE DataSeqs(_)
DataSeqs(n) ==
    IF n = 0 THEN {<<>>}
    ELSE LET shorter == DataSeqs(n - 1)
         IN  shorter \cup {Append(l, item) : l \in shorter, item \in DataItems}
DataFiles ==
    DataSeqs(MaxEvents)
CatsParams ==
    {None, Some(<<<<"F", "1">>>>), Some(<<<<"W", "E", "C">>>>)}
SessionsParams ==
    {None, Some(<<<<"R", "a", "c", "e">>>>)}
F1SessionsParams ==
    {None, Some(<<<<"S", "p", "r", "i", "n", "t", "_", "Q", "u", "a", "l", "y">>>>)}
TzParams ==
    {None, Some(TZ_unknown), Some(TZ_absolute)}
NoRequest ==
    [data |-> <<>>, cats |-> None, sessions |-> None, f1_sessions |-> None, tz |-> None]
NoResponse ==
    [status_code |-> 0, media_type |-> "", content |-> <<>>]

Init ==
    /\ pc = "idle"
    /\ event = NoEvent
    /\ category = <<>>
    /\ session_name = <<>>
    /\ requested_filters = {}
    /\ matched = FALSE
    /\ events = <<>>
    /\ filter_cats = None
    /\ filter_sessions = None
    /\ cat_session_filters = None
    /\ target_tz = None
    /\ cal = NoCalendar
    /\ prev_events = <<>>
    /\ prev_cal = NoCalendar
    /\ request = NoRequest
    /\ response = NoResponse
    /\ title = <<>>
    /\ cleaned = <<>>

\* One call of _determine_category.
DetermineCategory ==
    /\ pc = "idle"
    /\ \E t \in Titles, c \in CategoryLists :
          /\ event' = [title |-> t, categories |-> c]
          /\ category' = _determine_category(event')
    /\ pc' = "classified"
    /\ UNCHANGED <<request, response, title, cleaned>>
    /\ UNCHANGED <<session_name, requested_filters, matched, events, filter_cats,
                   filter_sessions, cat_session_filters, target_tz, cal,
                   prev_events, prev_cal>>

\* One call of _is_session_match.
IsSessionMatch ==
    /\ pc = "idle"
    /\ \E n \in Names, F \in FilterSets :
          /\ session_name' = n
          /\ requested_filters' = F
          /\ matched' = _is_session_match(n, F)
    /\ pc' = "matched"
    /\ UNCHANGED <<request, response, title, cleaned>>
    /\ UNCHANGED <<event, category, events, filter_cats, filter_sessions,
                   cat_session_filters, target_tz, cal, prev_events, prev_cal>>

\* One request: the events are loaded and generate_calendar is called.
GenerateCalendar ==
    /\ pc = "idle"
    /\ \E evs \in EventLists, fc \in CategoryFilters, fs \in SessionFilters,
          csf \in CategorySessionFilters, tz \in Timezones :
          /\ events' = evs
          /\ filter_cats' = fc
          /\ filter_sessions' = fs
          /\ cat_session_filters' = csf
          /\ target_tz' = tz
          /\ cal' = generate_calendar(evs, fc, fs, csf, tz)
    /\ pc' = "generated"
    /\ UNCHANGED <<request, response, title, cleaned>>
    /\ UNCHANGED <<event, category, session_name, requested_filters, matched,
                   prev_events, prev_cal>>

\* One GET /calendar.ics.
GetCalendarIcs ==
    /\ pc = "idle"
    /\ \E data \in DataFiles, cats \in CatsParams, sessions \in SessionsParams,
          f1_sessions \in F1SessionsParams, tz \in TzParams :
          /\ request' = [data |-> data, cats |-> cats, sessions |-> sessions,
                         f1_sessions |-> f1_sessions, tz |-> tz]
          /\ response' = get_calendar_ics(data, cats, sessions, f1_sessions,
                                          None, None, None, tz)
    /\ pc' = "responded"
    /\ UNCHANGED <<event, category, session_name, requested_filters, matched,
                   events, filter_cats, filter_sessions, cat_session_filters,
                   target_tz, cal, prev_events, prev_cal, title, cleaned>>

\* One call of _clean_title.
CleanTitle ==
    /\ pc = "idle"
    /\ \E t \in Titles \cup IconTitles :
          /\ title' = t
          /\ cleaned' = _clean_title(t)
    /\ pc' = "cleaned"
    /\ UNCHANGED <<event, category, session_name, requested_filters, matched,
                   events, filter_cats, filter_sessions, cat_session_filters,
                   target_tz, cal, prev_events, prev_cal, request, response>>

Next ==
    \/ DetermineCategory
    \/ IsSessionMatch
    \/ GenerateCalendar
    \/ GetCalendarIcs
    \/ CleanTitle

Spec ==
    Init /\ [][Next]_vars

(***************************************************************************)
(* The data files change between two requests.  DataLoader.load_events     *)
(* reads the files at every request, so the request after an edit is       *)
(* served from the edited events.  An edit keeps the events valid          *)
(* (validate_session, validate_event), as load_events drops the others.    *)
(***************************************************************************)
\* datetime + timedelta(minutes = n) within the same calendar date
AddMinutes(dt, n) ==
    [dt EXCEPT !.min = @ + n]
ClockShifts ==
    {-30, 30}
PostponeDays ==
    {7}
Postponed(ev, n) ==
    [ev EXCEPT
        !.start = IF @ = None THEN None ELSE Some(AddDays(@[1], n)),
        !.end = IF @ = None THEN None ELSE Some(AddDays(@[1], n)),
        !.sessions = [j \in 1..Len(@) |->
                         [@[j] EXCEPT !.start = AddDays(@, n), !.end = AddDays(@, n)]]]

\* The clock time of one session's start is corrected; its date stays.
RescheduleSession ==
    /\ pc = "generated"
    /\ \E e \in 1..Len(events) :
          \E j \in 1..Len(events[e].sessions), n \in ClockShifts :
              LET start == AddMinutes(events[e].sessions[j].start, n)
                  edited == [events EXCEPT ![e].sessions[j].start = start]
              IN  /\ start.min \in 0..1439
                  /\ validate_event(edited[e])
                  /\ events' = edited
    /\ prev_events' = events
    /\ prev_cal' = cal
    /\ pc' = "edited"
    /\ UNCHANGED <<request, response, title, cleaned>>
    /\ UNCHANGED <<event, category, session_name, requested_filters, matched,
                   filter_cats, filter_sessions, cat_session_filters, target_tz,
                   cal>>

\* One event, with its sessions, is moved to a later date.
PostponeEvent ==
    /\ pc = "generated"
    /\ \E e \in 1..Len(events), n \in PostponeDays :
          events' = [events EXCEPT ![e] = Postponed(@, n)]
    /\ prev_events' = events
    /\ prev_cal' = cal
    /\ pc' = "edited"
    /\ UNCHANGED <<request, response, title, cleaned>>
    /\ UNCHANGED <<event, category, session_name, requested_filters, matched,
                   filter_cats, filter_sessions, cat_session_filters, target_tz,
                   cal>>

\* The same request again, served from the edited events.
Regenerate ==
    /\ pc = "edited"
    /\ cal' = generate_calendar(events, filter_cats, filter_sessions,
                                cat_session_filters, target_tz)
    /\ pc' = "regenerated"
    /\ UNCHANGED <<request, response, title, cleaned>>
    /\ UNCHANGED <<event, category, session_name, requested_filters, matched,
                   events, filter_cats, filter_sessions, cat_session_filters,
                   target_tz, prev_events, prev_cal>>

NextRegen ==
    \/ GenerateCalendar
    \/ RescheduleSession
    \/ PostponeEvent
    \/ Regenerate

SpecRegen ==
    Init /\ [][NextRegen]_vars

(***************************************************************************)
(* Properties of the entry identifiers across two requests.                *)
(***************************************************************************)
\* The entries of a document with the event and the session each was built
\* from: title, session name (<<>> marks a whole-event entry), calendar
\* date of the source start, and identifier.
IdentifiedEntries(evs, document) ==
    {LET e == document.components[k].src[1]
         j == document.components[k].src[2]
     IN  [title |-> evs[e].title,
          whole |-> (j = 0),
          name |-> IF j = 0 THEN <<>> ELSE evs[e].sessions[j].name,
          date |-> IF j = 0 THEN evs[e].start[1].ord
                   ELSE evs[e].sessions[j].start.ord,
          clock |-> IF j = 0 THEN 0 ELSE evs[e].sessions[j].start.min,
          uid |-> document.components[k].evt.uid] :
        k \in 1..Len(document.components)}
TwoRequests ==
    pc = "regenerated" /\ prev_cal.raised = "" /\ cal.raised = ""

\* C1: the identifier of a session entry does not depend on the clock time
\* of the session start: a session entry of the first request and a session
\* entry of the second request with the same event title, the same session
\* name and the same calendar date of the start have the same identifier.
C1_SessionIdIgnoresClockTime ==
    TwoRequests =>
        \A x \in IdentifiedEntries(prev_events, prev_cal),
           y \in IdentifiedEntries(events, cal) :
            (~x.whole /\ ~y.whole /\ x.title = y.title /\ x.name = y.name
                /\ x.date = y.date)
                => x.uid = y.uid

\* C2: the identifier depends on the calendar date of the start, for
\* session entries and whole-event entries alike: two entries with the same
\* title and the same session name (or both whole-event) whose starts fall
\* on different calendar dates have different identifiers.
C2_IdDependsOnStartDate ==
    TwoRequests =>
        \A x \in IdentifiedEntries(prev_events, prev_cal),
           y \in IdentifiedEntries(events, cal) :
            (x.whole = y.whole /\ x.title = y.title /\ x.name = y.name
                /\ x.date # y.date)
                => x.uid # y.uid
\* The same for session entries only; the session seed holds the date.
C2_SessionIdDependsOnStartDate ==
    TwoRequests =>
        \A x \in IdentifiedEntries(prev_events, prev_cal),
           y \in IdentifiedEntries(events, cal) :
            (~x.whole /\ ~y.whole /\ x.title = y.title /\ x.name = y.name
                /\ x.date # y.date)
                => x.uid # y.uid

(***************************************************************************)
(* Properties of the classifier.                                           *)
(***************************************************************************)
K_nascar_keyword ==
    <<"n", "a", "s", "c", "a", "r">>
K_car_glyph ==
    <<"U+1F3CE", "U+FE0F">>
RuleTags ==
    {CATEGORY_KEYWORDS[i].cat : i \in 1..Len(CATEGORY_KEYWORDS)}
\* The rules one of whose keywords occurs in the lower-cased title.
RulesInTitle(t) ==
    {i \in 1..Len(CATEGORY_KEYWORDS) :
        \E k \in 1..Len(CATEGORY_KEYWORDS[i].keywords) :
            IsIn(CATEGORY_KEYWORDS[i].keywords[k], lower(t))}
\* The explicit category tags of an event that are rule tags.
KnownTagsOf(ev) ==
    {lower(ev.categories[j]) : j \in 1..Len(ev.categories)} \cap RuleTags

\* C3: the classification of an event is one tag, a tag of the ordered
\* rule list (nascar, f1, gt, motogp) or "other"; when keywords of several
\* rules occur in the lower-cased title it is the tag of the earliest
\* listed of them (a NASCAR keyword with the racing-car glyph gives nascar);
\* the event's own category tags decide only when no rule keyword occurs in
\* the title, and then a known tag or, without one, "other" is returned.
C3_ClassificationPriority ==
    pc = "classified" =>
        LET hits == RulesInTitle(event.title)
        IN  /\ <<CATEGORY_KEYWORDS[1].cat, CATEGORY_KEYWORDS[2].cat,
                 CATEGORY_KEYWORDS[3].cat, CATEGORY_KEYWORDS[4].cat>>
                  = <<C_nascar, C_f1, C_gt, <<"m", "o", "t", "o", "g", "p">>>>
            /\ category \in RuleTags \cup {OTHER_CATEGORY}
            /\ hits # {} =>
                  category = CATEGORY_KEYWORDS[CHOOSE i \in hits :
                                                  \A h \in hits : i <= h].cat
            /\ (IsIn(K_nascar_keyword, lower(event.title))
                  /\ IsIn(K_car_glyph, event.title)) => category = C_nascar
            /\ hits = {} =>
                  IF KnownTagsOf(event) = {} THEN category = OTHER_CATEGORY
                  ELSE category \in KnownTagsOf(event)
\* A title with a NASCAR keyword and the racing-car glyph was classified.
C3_Witness ==
    /\ pc = "classified"
    /\ IsIn(K_nascar_keyword, lower(event.title))
    /\ IsIn(K_car_glyph, event.title)
    /\ Cardinality(RulesInTitle(event.title)) >= 2
    /\ category = C_nascar

(***************************************************************************)
(* Properties of the session filter matcher.                               *)
(***************************************************************************)
\* alias occurs in name at position i with a space or an end of the name on
\* each side.
WordAt(alias, name, i) ==
    /\ i + Len(alias) - 1 <= Len(name)
    /\ SubSeq(name, i, i + Len(alias) - 1) = alias
    /\ (i = 1 \/ name[i - 1] = " ")
    /\ (i + Len(alias) - 1 = Len(name) \/ name[i + Len(alias)] = " ")
OccursAsWord(alias, name) ==
    \E i \in 1..Len(name) : WordAt(alias, name, i)
SprintKeys ==
    {K_sprint, K_sprint_qualy}
\* The name the matcher compares: lower-cased, without the white space
\* around it.
Trimmed(name) ==
    strip(lower(name))

\* C4: matching of a key other than sprint and sprint_qualy is whole-word.
\* The filter {"p1"} matches no name in which "p1" is only part of a
\* longer word, so not "FP1 Practice", which {"fp1"} matches; a set of such
\* keys matches a name exactly when an alias of one of its keys occurs in
\* the lower-cased, trimmed name between spaces or ends of the name.
C4_WholeWordMatching ==
    pc = "matched" =>
        /\ (requested_filters = {K_p1} /\ ~OccursAsWord(K_p1, Trimmed(session_name)))
              => ~matched
        /\ (requested_filters = {K_p1} /\ session_name = N_FP1_Practice) => ~matched
        /\ (requested_filters = {K_fp1} /\ session_name = N_FP1_Practice) => matched
        /\ requested_filters \cap SprintKeys = {} =>
              (matched <=>
                  \E key \in requested_filters :
                      \E a \in 1..Len(AliasesOf(key)) :
                          OccursAsWord(AliasesOf(key)[a], Trimmed(session_name)))
\* The filter {"p1"} was tried on a name that holds "p1" inside a longer
\* word only, and did not match.
C4_Witness ==
    /\ pc = "matched"
    /\ requested_filters = {K_p1}
    /\ session_name = N_FP1_Practice
    /\ IsIn(K_p1, lower(session_name))
    /\ ~matched

\* C5: the key "sprint" matches a name exactly when the lower-cased name
\* contains "sprint" and neither "qual" nor "clasif"; the key "sprint_qualy"
\* exactly when it contains "sprint" and one of "qual", "clasif"; no name is
\* matched by both, and "Sprint Qualifying" is matched by sprint_qualy only.
C5_SprintKeys ==
    pc = "matched" =>
        LET n == lower(session_name)
            sprint == IsIn(K_sprint, n)
            qual == IsIn(K_qual, n) \/ IsIn(K_clasif, n)
        IN  /\ requested_filters = {K_sprint} => (matched <=> (sprint /\ ~qual))
            /\ requested_filters = {K_sprint_qualy} => (matched <=> (sprint /\ qual))
            /\ ~(/\ _is_session_match(session_name, {K_sprint})
                 /\ _is_session_match(session_name, {K_sprint_qualy}))
            /\ session_name = N_Sprint_Qualifying =>
                  /\ _is_session_match(session_name, {K_sprint_qualy})
                  /\ ~_is_session_match(session_name, {K_sprint})
\* "Sprint Qualifying" was matched by the filter {"sprint_qualy"}.
C5_Witness ==
    /\ pc = "matched"
    /\ session_name = N_Sprint_Qualifying
    /\ requested_filters = {K_sprint_qualy}
    /\ matched

(***************************************************************************)
(* Properties of generate_calendar.                                        *)
(***************************************************************************)
\* The call returned a Calendar.
Returned ==
    pc = "generated" /\ cal.raised = ""
CategoryOf(e) ==
    _determine_category(events[e])
\* An event of category c is not left out by the category filter.
CategoryPasses(c) ==
    filter_cats = None \/ filter_cats[1] = {} \/ c \in filter_cats[1]
\* The request has a per-category session filter entry for category c.
HasPerCategoryEntry(c) ==
    cat_session_filters # None /\ c \in DOMAIN cat_session_filters[1]
\* The sessions of event e that have an entry in the document.
SessionEntriesOf(e) ==
    {cal.components[k].src[2] :
        k \in {k \in 1..Len(cal.components) :
                  /\ cal.components[k].src[1] = e
                  /\ cal.components[k].src[2] # 0}}
\* The sessions of event e a filter set lets through: an empty set is no
\* filter.
SessionsAdmitted(e, F) ==
    {j \in 1..Len(events[e].sessions) :
        F = {} \/ _is_session_match(events[e].sessions[j].name, F)}

\* C6: for an event the category filter lets through, the session filter
\* applied is the request's per-category entry for the event's category
\* when there is one, whatever the global session filter; without such an
\* entry it is the global session filter; with neither, every session of
\* the event has an entry.
C6_EffectiveSessionFilter ==
    Returned =>
        \A e \in 1..Len(events) :
            LET c == CategoryOf(e)
            IN  CategoryPasses(c) =>
                    /\ HasPerCategoryEntry(c) =>
                          SessionEntriesOf(e)
                              = SessionsAdmitted(e, cat_session_filters[1][c])
                    /\ (~HasPerCategoryEntry(c) /\ filter_sessions # None) =>
                          SessionEntriesOf(e) = SessionsAdmitted(e, filter_sessions[1])
                    /\ (~HasPerCategoryEntry(c) /\ filter_sessions = None) =>
                          SessionEntriesOf(e) = 1..Len(events[e].sessions)
\* A request with a per-category entry {"race"} for f1 and another global
\* filter: only the race of the f1 event has an entry.
C6_Witness ==
    /\ Returned
    /\ Len(events) >= 1
    /\ CategoryOf(1) = C_f1
    /\ HasPerCategoryEntry(C_f1)
    /\ cat_session_filters[1][C_f1] = {K_race}
    /\ filter_sessions = Some({K_fp3})
    /\ Len(events[1].sessions) = 2
    /\ events[1].sessions[1].name = N_Qualifying
    /\ SessionEntriesOf(1) = {2}

\* The session filter in effect for an event of category c.
EffectiveOf(c) ==
    IF HasPerCategoryEntry(c) THEN Some(cat_session_filters[1][c])
    ELSE filter_sessions
\* The components built from sessions.
SessionComponents ==
    {k \in 1..Len(cal.components) : cal.components[k].src[2] # 0}
\* The sessions of event e that are to have an entry.
ExpectedSessionsOf(e) ==
    LET c == CategoryOf(e)
        eff == EffectiveOf(c)
    IN  {<<e, j>> : j \in {j \in 1..Len(events[e].sessions) :
                              /\ CategoryPasses(c)
                              /\ \/ ~TruthySet(eff)
                                 \/ _is_session_match(events[e].sessions[j].name,
                                                      eff[1])}}
ExpectedSessions ==
    UNION {ExpectedSessionsOf(e) : e \in 1..Len(events)}

\* C7: the document holds exactly one entry for each session of an event
\* the category filter lets through whose name matches the effective
\* session filter (or that has no effective filter), and no entry for any
\* other session.
C7_ExactlyTheMatchingSessions ==
    Returned =>
        LET expected == ExpectedSessions
        IN  /\ {cal.components[k].src : k \in SessionComponents} = expected
            /\ Cardinality(SessionComponents) = Cardinality(expected)
            /\ \A k \in SessionComponents :
                  LET src == cal.components[k].src
                  IN  cal.components[k].evt.description
                          = events[src[1]].sessions[src[2]].name
\* One f1 event with the sessions "Qualifying" and "Race", category filter
\* {f1}, session filter {race}: one entry, for "Race".
C7_Witness ==
    /\ Returned
    /\ Len(events) = 1
    /\ events[1].title = T_Example_Grand_Prix
    /\ Len(events[1].sessions) = 2
    /\ events[1].sessions[1].name = N_Qualifying
    /\ events[1].sessions[2].name = N_Race
    /\ filter_cats = Some({C_f1})
    /\ filter_sessions = Some({K_race})
    /\ cat_session_filters = None
    /\ Len(cal.components) = 1
    /\ cal.components[1].src = <<1, 2>>
    /\ IsIn(N_Race, cal.components[1].evt.summary)
    /\ ~IsIn(N_Qualifying, cal.components[1].evt.summary)

\* C8: an all-day entry stores the calendar date of the event's start as
\* its start and the calendar date of the event's end plus one day as its
\* end, with or without a target timezone (start 2025-03-01 and end
\* 2025-03-03 are stored with the end 2025-03-04).
C8_AllDayExclusiveEnd ==
    pc = "generated" =>
        \A k \in 1..Len(cal.components) :
            cal.components[k].src[2] = 0 =>
                LET ev == events[cal.components[k].src[1]]
                    evt == cal.components[k].evt
                IN  /\ ev.sessions = <<>>
                    /\ evt.dtstart = Date(ev.start[1].ord)
                    /\ evt.dtend = Date(ev.end[1].ord + 1)
                    /\ (/\ _ord2ymd(ev.start[1].ord) = <<2025, 3, 1>>
                        /\ _ord2ymd(ev.end[1].ord) = <<2025, 3, 3>>)
                          => _ord2ymd(evt.dtend.ord) = <<2025, 3, 4>>
\* A request with a resolved target timezone produced the all-day entry of
\* an event from 2025-03-01 to 2025-03-03.
C8_Witness ==
    /\ pc = "generated"
    /\ target_tz = Some(TZ_Madrid)
    /\ cal.x_wr_timezone = Some(TZ_Madrid)
    /\ \E k \in 1..Len(cal.components) :
          /\ cal.components[k].src[2] = 0
          /\ cal.components[k].evt.dtstart = Date(_ymd2ord(2025, 3, 1))
          /\ cal.components[k].evt.dtend = Date(_ymd2ord(2025, 3, 4))

\* The target timezone is a non-empty string that ZoneInfo does not resolve.
Unresolvable(tz) ==
    TruthyStr(tz) /\ ZoneInfo(tz[1]).zone = None

\* C9: with a target timezone string that is no resolvable zone identifier
\* generate_calendar does not fail, and returns the entries of the same
\* call without a target timezone, the timestamps unconverted.
C9_UnresolvableTimezoneNeverFails ==
    (pc = "generated" /\ Unresolvable(target_tz)) =>
        /\ cal.raised = ""
        /\ cal.components
              = generate_calendar(events, filter_cats, filter_sessions,
                                  cat_session_filters, None).components

\* The key is neither sprint, sprint_qualy nor a key of the alias table.
IsUnknownKey(key) ==
    /\ key \notin SprintKeys
    /\ \A i \in 1..Len(SESSION_ALIASES) : SESSION_ALIASES[i].key # key
OnlyUnknownKeys(F) ==
    F # {} /\ \A key \in F : IsUnknownKey(key)

\* C10 as stated: a filter set of unknown keys only matches no session
\* name, and a request whose effective session filter is such a set yields
\* no session entry.
C10_UnknownKeyMatchesNothing ==
    /\ (pc = "matched" /\ OnlyUnknownKeys(requested_filters)) => ~matched
    /\ Returned =>
          \A e \in 1..Len(events) :
              LET eff == EffectiveOf(CategoryOf(e))
              IN  (TruthySet(eff) /\ OnlyUnknownKeys(eff[1]))
                      => SessionEntriesOf(e) = {}

\* C10, amended: an unknown key is its own alias.  A filter set of unknown
\* keys only matches exactly the names in which one of its keys occurs as
\* a whole word, and a request whose effective session filter is such a
\* set yields the entries of exactly those sessions of the events the
\* category filter lets through; the call does not fail for it.
C10_UnknownKeyMatchesItself ==
    /\ (pc = "matched" /\ OnlyUnknownKeys(requested_filters)) =>
          (matched <=> \E key \in requested_filters :
                          OccursAsWord(key, Trimmed(session_name)))
    /\ Returned =>
          \A e \in 1..Len(events) :
              LET c == CategoryOf(e)
                  eff == EffectiveOf(c)
              IN  (CategoryPasses(c) /\ TruthySet(eff) /\ OnlyUnknownKeys(eff[1])) =>
                      SessionEntriesOf(e)
                          = {j \in 1..Len(events[e].sessions) :
                                \E key \in eff[1] :
                                    OccursAsWord(key,
                                                 Trimmed(events[e].sessions[j].name))}
\* The unknown key "fp3" matched a session name.
C10_Witness ==
    /\ pc = "matched"
    /\ requested_filters = {K_fp3}
    /\ IsUnknownKey(K_fp3)
    /\ matched

(***************************************************************************)
(* Properties of the gateway.                                              *)
(***************************************************************************)
\* The data file holds an item that is no mapping: loading raises.
LoadingRaises(data) ==
    \E i \in 1..Len(data) : data[i].kind # "mapping"
\* ZoneInfo raises an exception that generate_calendar does not handle.
AssemblyRaises(tz) ==
    /\ tz # None
    /\ tz[1] # <<>>
    /\ ZoneInfo(tz[1]).raised \notin {"", "ZoneInfoNotFoundError"}
IsLine(line, name, value) ==
    line.name = name /\ line.value = value
\* BEGIN:VCALENDAR ... END:VCALENDAR, the entries opened and closed inside.
WellFormed(content) ==
    /\ Len(content) >= 2
    /\ IsLine(content[1], "BEGIN", "VCALENDAR")
    /\ IsLine(content[Len(content)], "END", "VCALENDAR")
    /\ \A k \in 2..(Len(content) - 1) :
          /\ ~IsLine(content[k], "BEGIN", "VCALENDAR")
          /\ ~IsLine(content[k], "END", "VCALENDAR")
          /\ IsLine(content[k], "BEGIN", "VEVENT")
                => \E l \in (k + 1)..(Len(content) - 1) :
                      /\ IsLine(content[l], "END", "VEVENT")
                      /\ \A n \in (k + 1)..(l - 1) : content[n].name \notin {"BEGIN", "END"}
EntryCount(content) ==
    Cardinality({k \in 1..Len(content) : IsLine(content[k], "BEGIN", "VEVENT")})
\* The events of the data file that the loader keeps and the category
\* parameter admits.
AdmittedEvents(data, cats) ==
    {i \in 1..Len(data) :
        /\ data[i].kind = "mapping"
        /\ validate_event(data[i].ev)
        /\ (cats = None \/ cats[1] = <<>>
               \/ \E c \in 1..Len(cats[1]) :
                     lower(cats[1][c]) = _determine_category(data[i].ev))}

\* C11: GET /calendar.ics answers 500 exactly when loading or assembly
\* raises; every other request is answered 200 with a well-formed calendar
\* document, and a request whose category filter admits no event gets such
\* a document without entries, never a failure.
C11_EmptyResultIsSuccess ==
    pc = "responded" =>
        LET fails == LoadingRaises(request.data) \/ AssemblyRaises(request.tz)
        IN  /\ (response.status_code = HTTP_INTERNAL_ERROR) <=> fails
            /\ ~fails =>
                  /\ response.status_code = HTTP_OK
                  /\ response.media_type = "text/calendar"
                  /\ WellFormed(response.content)
                  /\ AdmittedEvents(request.data, request.cats) = {}
                        => EntryCount(response.content) = 0

\* A request for an unknown category on a data file with a valid event is
\* answered 200 with a document that has no entries.
C11_Witness ==
    /\ pc = "responded"
    /\ request.cats = Some(<<<<"W", "E", "C">>>>)
    /\ \E i \in 1..Len(request.data) :
          request.data[i].kind = "mapping" /\ validate_event(request.data[i].ev)
    /\ response.status_code = HTTP_OK
    /\ WellFormed(response.content)
    /\ EntryCount(response.content) = 0

(***************************************************************************)
(* Properties of the title cleaner.                                        *)
(***************************************************************************)
KnownGlyphs ==
    {ICONS[i].icon : i \in 1..Len(ICONS)}

WholeEntriesOf(e) ==
    {k \in 1..Len(cal.components) : cal.components[k].src = <<e, 0>>}
IsAllDay(evt) ==
    evt.dtstart.type = "date" /\ evt.dtend.type = "date"

\* C13: an event without sessions whose category passes the category
\* filter has exactly one all-day entry when there is no effective session
\* filter (none, or an empty one) or the effective filter holds "race", and
\* no entry when the effective filter holds keys but not "race"; an event
\* with sessions has no all-day entry, whether or not it has start and end.
C13_WholeEventEntry ==
    Returned =>
        \A e \in 1..Len(events) :
            LET c == CategoryOf(e)
                eff == EffectiveOf(c)
                whole == WholeEntriesOf(e)
            IN  /\ events[e].sessions # <<>> => whole = {}
                /\ ~CategoryPasses(c) => whole = {}
                /\ (events[e].sessions = <<>> /\ CategoryPasses(c)) =>
                      IF eff = None \/ eff[1] = {} \/ K_race \in eff[1]
                      THEN /\ Cardinality(whole) = 1
                           /\ \A k \in whole : IsAllDay(cal.components[k].evt)
                      ELSE whole = {}

\* An event without sessions under the session filter {race} has its one
\* all-day entry.
C13_Witness ==
    /\ Returned
    /\ Len(events) = 1
    /\ events[1].sessions = <<>>
    /\ filter_sessions = Some({K_race})
    /\ cat_session_filters = None
    /\ Len(cal.components) = 1
    /\ cal.components[1].src = <<1, 0>>
    /\ IsAllDay(cal.components[1].evt)

(***************************************************************************)
(* Properties of the stored start and end.                                 *)
(***************************************************************************)
\* start < end of two stored values: dates by the calendar, aware
\* datetimes by their instant.
StoredBefore(a, b) ==
    IF a.type = "date" THEN a.ord < b.ord ELSE UtcMinutes(a) < UtcMinutes(b)

\* C14: every entry of every document generate_calendar returns for
\* validated events stores a start strictly before its end: session entries
\* with or without timezone conversion, all-day entries by their dates.
C14_StartBeforeEnd ==
    Returned =>
        \A k \in 1..Len(cal.components) :
            /\ validate_event(events[cal.components[k].src[1]])
            /\ StoredBefore(cal.components[k].evt.dtstart, cal.components[k].evt.dtend)
\* The same for the session entries alone, and for the all-day entries of
\* events whose start and end carry the same UTC offset.
C14_StartBeforeEndSameOffset ==
    Returned =>
        \A k \in 1..Len(cal.components) :
            LET ev == events[cal.components[k].src[1]]
            IN  (cal.components[k].src[2] # 0 \/ ev.start[1].off = ev.end[1].off)
                    => StoredBefore(cal.components[k].evt.dtstart,
                                    cal.components[k].evt.dtend)

====
